---- MODULE Spec2Model ----
(***************************************************************************)
(* The guess-selection engine of the Hangman solver: candidate filtering,  *)
(* the entropy+frequency scorer, the Bayesian n-gram scorer, the unigram   *)
(* fallback (src/hangman_v3.py) and the orchestrator get_best_guess        *)
(* (src/app.py).                                                           *)
(*                                                                         *)
(* Letters are the integers 1..AlphabetSize (1 = "a", 2 = "b", ...), the   *)
(* wildcard "_" is Wild, a word is a sequence of letters, a corpus is a    *)
(* sequence of words.  The code's alphabet has 26 letters; the model's has *)
(* AlphabetSize.                                                           *)
(***************************************************************************)
EXTENDS Integers, Sequences, FiniteSets, TLC

\* ------------------------------------------------------------------ bounds
AlphabetSize == 3
MaxCorpus == 2

\* --------------------------------------------------------------- constants
Wild == 0
Space == -1
None == -2

Alphabet == 1..AlphabetSize

\* The words a corpus file may hold: "ab", "ac", "aaa", "cab".
Lexicon == { <<1, 2>>, <<1, 3>>, <<1, 1, 1>>, <<3, 1, 2>> }

RECURSIVE Sum(_, _)
Sum(f, S) ==
    IF S = {} THEN 0
    ELSE LET x == CHOOSE y \in S : TRUE
         IN  f[x] + Sum(f, S \ {x})

Max(S) == CHOOSE x \in S : \A y \in S : y <= x

\* The longest word of the lexicon; a pattern has one to MaxWordLen slots.
MaxWordLen == Max({ Len(w) : w \in Lexicon })

RECURSIVE SeqsUpTo(_, _)
SeqsUpTo(S, n) ==
    IF n = 0 THEN { <<>> }
    ELSE LET shorter == SeqsUpTo(S, n - 1)
         IN  shorter \cup { Append(s, x) : s \in shorter, x \in S }

\* words = [] ; words += read_words(file) : a nonempty list, repeats allowed
Corpora == SeqsUpTo(Lexicon, MaxCorpus) \ { <<>> }

\* The patterns a request may carry: letters and wildcards, one to MaxWordLen slots.
Patterns == SeqsUpTo(Alphabet \cup {Wild}, MaxWordLen) \ { <<>> }

Range(s) == { s[i] : i \in 1..Len(s) }

Get(d, k, default) == IF k \in DOMAIN d THEN d[k] ELSE default

\* ------------------------------------------------------ candidate filtering
RECURSIVE matches_from(_, _, _, _)
matches_from(word, pattern, wrong_guesses, i) ==
    IF i > Len(pattern) THEN TRUE
    ELSE IF pattern[i] # Wild /\ word[i] # pattern[i] THEN FALSE
    ELSE IF pattern[i] = Wild /\ word[i] \in wrong_guesses THEN FALSE
    ELSE matches_from(word, pattern, wrong_guesses, i + 1)

\* matches, with a wrong letter rejected at any slot, not only at a wildcard
matches_wrong_anywhere(word, pattern, wrong_guesses) ==
    /\ Len(word) = Len(pattern)
    /\ matches_from(word, pattern, wrong_guesses, 1)
    /\ Range(word) \cap wrong_guesses = {}

matches(word, pattern, wrong_guesses) ==
    IF Len(word) # Len(pattern) THEN FALSE
    ELSE matches_from(word, pattern, wrong_guesses, 1)

filter_candidates(word_list, pattern, wrong_guesses) ==
    SelectSeq(word_list, LAMBDA w : matches(w, pattern, wrong_guesses))

\* ------------------------------------------------------- n-gram statistics
\* <<k, i>> : position i of word k, the pairs the two loops of lines 55-56 visit
Positions(ws) == { p \in (1..Len(ws)) \X (1..MaxWordLen) : p[2] <= Len(ws[p[1]]) }

\* unigram[c] += 1
unigram_counts(ws) ==
    LET at(p) == ws[p[1]][p[2]]
        keys == { at(p) : p \in Positions(ws) }
    IN  [ c \in keys |-> Cardinality({ p \in Positions(ws) : at(p) = c }) ]

\* if i > 0: bigram[(word[i - 1], c)] += 1
bigram_counts(ws) ==
    LET pos == { p \in Positions(ws) : p[2] > 1 }
        at(p) == << ws[p[1]][p[2] - 1], ws[p[1]][p[2]] >>
        keys == { at(p) : p \in pos }
    IN  [ k \in keys |-> Cardinality({ p \in pos : at(p) = k }) ]

\* if i > 1: trigram[(word[i - 2], word[i - 1], c)] += 1
trigram_counts(ws) ==
    LET pos == { p \in Positions(ws) : p[2] > 2 }
        at(p) == << ws[p[1]][p[2] - 2], ws[p[1]][p[2] - 1], ws[p[1]][p[2]] >>
        keys == { at(p) : p \in pos }
    IN  [ k \in keys |-> Cardinality({ p \in pos : at(p) = k }) ]

\* bigram_next_sums, with `+= 1` for `+= v`
bigram_next_sums_counting_keys(bigram) ==
    [ a \in { k[1] : k \in DOMAIN bigram } |->
        Cardinality({ k \in DOMAIN bigram : k[1] = a }) ]

\* for (a, b), v in bigram.items(): bigram_next_sum[a] += v
bigram_next_sums(bigram) ==
    [ a \in { k[1] : k \in DOMAIN bigram } |->
        Sum(bigram, { k \in DOMAIN bigram : k[1] = a }) ]

\* for (a, b), v in bigram.items(): bigram_prev_sum[b] += v
bigram_prev_sums(bigram) ==
    [ b \in { k[2] : k \in DOMAIN bigram } |->
        Sum(bigram, { k \in DOMAIN bigram : k[2] = b }) ]

\* trigram_lr_sums, with the key (a, b) for (a, c)
trigram_lr_sums_keyed_by_prefix(trigram) ==
    [ ab \in { << k[1], k[2] >> : k \in DOMAIN trigram } |->
        Sum(trigram, { k \in DOMAIN trigram : << k[1], k[2] >> = ab }) ]

\* for (a, b, c), v in trigram.items(): trigram_lr_sum[(a, c)] += v
trigram_lr_sums(trigram) ==
    [ ac \in { << k[1], k[3] >> : k \in DOMAIN trigram } |->
        Sum(trigram, { k \in DOMAIN trigram : << k[1], k[3] >> = ac }) ]

\* A probability count / total is kept as the pair <<count, total>>.
build_ngram_stats(ws) ==
    LET unigram == unigram_counts(ws)
        bigram == bigram_counts(ws)
        trigram == trigram_counts(ws)
        total == IF DOMAIN unigram # {} THEN Sum(unigram, DOMAIN unigram) ELSE 1
    IN  [ unigram_probs |-> [ c \in DOMAIN unigram |-> << unigram[c], total >> ],
          bigram |-> bigram,
          trigram |-> trigram,
          bigram_next_sum |-> bigram_next_sums(bigram),
          bigram_prev_sum |-> bigram_prev_sums(bigram),
          trigram_lr_sum |-> trigram_lr_sums(trigram) ]

\* --------------------------------------------- entropy + frequency strategy
\* single_letter_freq_score, with `for letter in word` for `for letter in set(word)`
single_letter_freq_score_per_occurrence(candidates, guessed) ==
    LET occ == { p \in Positions(candidates) : candidates[p[1]][p[2]] \notin guessed }
        keys == { candidates[p[1]][p[2]] : p \in occ }
    IN  [ l \in keys |-> Cardinality({ p \in occ : candidates[p[1]][p[2]] = l }) ]

\* counter[letter] += 1, once per list entry whose letter set holds the letter
single_letter_freq_score(candidates, guessed) ==
    LET holds(k, letter) == letter \in Range(candidates[k]) /\ letter \notin guessed
        keys == { l \in Alphabet : \E k \in 1..Len(candidates) : holds(k, l) }
    IN  [ l \in keys |-> Cardinality({ k \in 1..Len(candidates) : holds(k, l) }) ]

\* mask, telling only whether the letter occurs in the word
mask_by_presence(word, letter) == IF letter \in Range(word) THEN { 1 } ELSE {}

\* mask = tuple(i for i, c in enumerate(word) if c == letter)
mask(word, letter) == { i \in 1..Len(word) : word[i] = letter }

\* partitions[mask] += 1
partitions(candidates, letter) ==
    LET masks == { mask(candidates[k], letter) : k \in 1..Len(candidates) }
    IN  [ m \in masks |->
            Cardinality({ k \in 1..Len(candidates) : mask(candidates[k], letter) = m }) ]

\* 1000 * n * log2(n), rounded; exact but for n = 3
XLog2X(n) ==
    CASE n = 1 -> 0
      [] n = 2 -> 2000
      [] n = 3 -> 4755
      [] n = 4 -> 8000

\* entropy_score, with the alphabet not cut by guessed
entropy_score_whole_alphabet(candidates, guessed) ==
    [ letter \in Alphabet |->
        LET parts == partitions(candidates, letter)
            xlogx == [ m \in DOMAIN parts |-> XLog2X(parts[m]) ]
        IN  XLog2X(Len(candidates)) - Sum(xlogx, DOMAIN parts) ]

\* The entropy of each unguessed letter, as 1000 * total * ent:
\*   ent = - sum p * log2(p), p = part_count / total
\*       = (total * log2(total) - sum part_count * log2(part_count)) / total
entropy_score(candidates, guessed) ==
    LET total == Len(candidates)
    IN  [ letter \in Alphabet \ guessed |->
            LET parts == partitions(candidates, letter)
                xlogx == [ m \in DOMAIN parts |-> XLog2X(parts[m]) ]
            IN  XLog2X(total) - Sum(xlogx, DOMAIN parts) ]

\* combined[letter], as 2000 * total * (ent + weight_freq * freq), the weight
\* given in halves (weight_freq = 0.5 is 1)
combined_scores(candidates, guessed, weight_halves) ==
    LET ent_scores == entropy_score(candidates, guessed)
        freq_scores == single_letter_freq_score(candidates, guessed)
    IN  [ letter \in DOMAIN ent_scores |->
            2 * ent_scores[letter]
            + weight_halves * 1000 * Len(candidates) * Get(freq_scores, letter, 0) ]

\* What a call returns: the value, or raised = TRUE when it ends in an exception.
Returns(v) == [ guess |-> v, raised |-> FALSE ]
Raises == [ guess |-> None, raised |-> TRUE ]

\* max(combined, key=combined.get): the first key of maximal score in the
\* iteration order of `set("abc...") - guessed`, an order a set of str does not
\* fix (str hashes are salted per interpreter), so any key of maximal score;
\* ValueError on an empty dict.
entropy_guess(candidates, guessed, weight_halves) ==
    IF candidates = <<>> THEN { Returns(None) }
    ELSE LET combined == combined_scores(candidates, guessed, weight_halves)
         IN  IF DOMAIN combined = {} THEN { Raises }
             ELSE { Returns(l) : l \in { x \in DOMAIN combined :
                        \A y \in DOMAIN combined : combined[y] <= combined[x] } }

\* ------------------------------------------------------- Bayesian strategy
\* alpha=1.0
Alpha == 1

\* V = 26, the alphabet size for smoothing
V == AlphabetSize

\* 1e-12 is 1 / (Million * Million)
Million == 1000000

\* left = pattern[pos - 1] if pos > 0 else None
left_of(pattern, pos) == IF pos > 1 THEN pattern[pos - 1] ELSE None

\* right = pattern[pos + 1] if pos < len(pattern) - 1 else None
right_of(pattern, pos) == IF pos < Len(pattern) THEN pattern[pos + 1] ELSE None

\* likelihood_factors, with the smoothing terms swapped: alpha * V added to the
\* count and alpha to the sum
likelihood_factors_swapped_smoothing(pattern, pos, X, stats) ==
    LET left == left_of(pattern, pos)
        right == right_of(pattern, pos)
        left_factor ==
            IF left # None /\ left # Wild
            THEN << << Get(stats.bigram, << left, X >>, 0) + Alpha * V,
                       Get(stats.bigram_next_sum, left, 0) + Alpha >> >>
            ELSE << >>
        right_factor ==
            IF right # None /\ right # Wild
            THEN << << Get(stats.bigram, << X, right >>, 0) + Alpha * V,
                       Get(stats.bigram_next_sum, X, 0) + Alpha >> >>
            ELSE << >>
        trigram_factor ==
            IF left # None /\ right # None /\ left # Wild /\ right # Wild
            THEN << << Get(stats.trigram, << left, X, right >>, 0) + Alpha * V,
                       Get(stats.trigram_lr_sum, << left, right >>, 0) + Alpha >> >>
            ELSE << >>
    IN  left_factor \o right_factor \o trigram_factor

\* The factors numer / denom multiplied into the likelihood of letter X at the
\* wildcard slot pos, in the order of lines 192-207, each as <<numer, denom>>.
likelihood_factors(pattern, pos, X, stats) ==
    LET left == left_of(pattern, pos)
        right == right_of(pattern, pos)
        left_factor ==
            IF left # None /\ left # Wild
            THEN << << Get(stats.bigram, << left, X >>, 0) + Alpha,
                       Get(stats.bigram_next_sum, left, 0) + Alpha * V >> >>
            ELSE << >>
        right_factor ==
            IF right # None /\ right # Wild
            THEN << << Get(stats.bigram, << X, right >>, 0) + Alpha,
                       Get(stats.bigram_next_sum, X, 0) + Alpha * V >> >>
            ELSE << >>
        trigram_factor ==
            IF left # None /\ right # None /\ left # Wild /\ right # Wild
            THEN << << Get(stats.trigram, << left, X, right >>, 0) + Alpha,
                       Get(stats.trigram_lr_sum, << left, right >>, 0) + Alpha * V >> >>
            ELSE << >>
    IN  left_factor \o right_factor \o trigram_factor

\* likelihood = 1.0 ; likelihood *= numer / denom
RECURSIVE likelihood(_)
likelihood(fs) ==
    IF fs = << >> THEN << 1, 1 >>
    ELSE LET rest == likelihood(Tail(fs))
         IN  << Head(fs)[1] * rest[1], Head(fs)[2] * rest[2] >>

\* The sum over the wildcard slots of the likelihood of X, a fraction <<n, d>>.
RECURSIVE likelihood_sum(_, _, _, _)
likelihood_sum(pattern, slots, X, stats) ==
    IF slots = {} THEN << 0, 1 >>
    ELSE LET pos == CHOOSE q \in slots : TRUE
             l == likelihood(likelihood_factors(pattern, pos, X, stats))
             rest == likelihood_sum(pattern, slots \ {pos}, X, stats)
         IN  << l[1] * rest[2] + rest[1] * l[2], l[2] * rest[2] >>

\* scores[X] += prior * likelihood, summed over the wildcard slots: the value
\* n / d, times 1e-12 when floor (the prior of a letter the corpus never holds).
bayesian_score(pattern, X, stats) ==
    LET slots == { pos \in 1..Len(pattern) : pattern[pos] = Wild }
        s == likelihood_sum(pattern, slots, X, stats)
    IN  IF X \in DOMAIN stats.unigram_probs
        THEN [ n |-> stats.unigram_probs[X][1] * s[1],
               d |-> stats.unigram_probs[X][2] * s[2], floor |-> FALSE ]
        ELSE [ n |-> s[1], d |-> s[2], floor |-> TRUE ]

\* score = prior * likelihood, what the wildcard slot pos adds to scores[X]
slot_score(pattern, pos, X, stats) ==
    LET l == likelihood(likelihood_factors(pattern, pos, X, stats))
    IN  IF X \in DOMAIN stats.unigram_probs
        THEN [ n |-> stats.unigram_probs[X][1] * l[1],
               d |-> stats.unigram_probs[X][2] * l[2], floor |-> FALSE ]
        ELSE [ n |-> l[1], d |-> l[2], floor |-> TRUE ]

\* a < b for two scores
score_less(a, b) ==
    IF a.floor = b.floor THEN a.n * b.d < b.n * a.d
    ELSE IF a.floor THEN ((a.n * b.d) \div Million) \div Million < b.n * a.d
    ELSE a.n * b.d <= ((b.n * a.d - 1) \div Million) \div Million

\* max(scores, key=scores.get): as in entropy_guess, any key of maximal score
bayesian_guess(pattern, guessed, stats) ==
    LET letters == Alphabet \ guessed
        slots == { pos \in 1..Len(pattern) : pattern[pos] = Wild }
        scores == [ X \in letters |-> bayesian_score(pattern, X, stats) ]
    IN  IF letters = {} THEN { Returns(None) }
        ELSE IF slots = {} THEN { Returns(None) }
        ELSE { Returns(X) : X \in { x \in letters :
                   \A y \in letters : ~ score_less(scores[x], scores[y]) } }

\* --------------------------------------------------------- unigram fallback
\* p < q for two probabilities <<count, total>>
prob_less(p, q) == p[1] * q[2] < q[1] * p[2]

\* fallback_unigram, without its last resort
fallback_unigram_no_last_resort(unigram_probs, guessed) ==
    LET candidates == { i \in DOMAIN unigram_probs : i \notin guessed }
    IN  IF candidates # {}
        THEN { Returns(CHOOSE i \in candidates : \A j \in candidates \ {i} :
                   \/ prob_less(unigram_probs[j], unigram_probs[i])
                   \/ ~ prob_less(unigram_probs[i], unigram_probs[j]) /\ j < i) }
        ELSE { Returns(None) }

\* fallback_unigram, with max(candidates, key=probability): the first of the
\* most probable letters, not the last
fallback_unigram_max_by_probability(unigram_probs, guessed) ==
    LET candidates == { i \in DOMAIN unigram_probs : i \notin guessed }
        remaining == { i \in Alphabet : i \notin guessed }
    IN  IF candidates # {}
        THEN { Returns(CHOOSE i \in candidates : \A j \in candidates \ {i} :
                   \/ prob_less(unigram_probs[j], unigram_probs[i])
                   \/ ~ prob_less(unigram_probs[i], unigram_probs[j]) /\ i < j) }
        ELSE IF remaining # {} THEN { Returns(i) : i \in remaining }
        ELSE { Returns(None) }

\* max(candidates)[1] over the pairs (p, i); random.choice(remaining) is any
\* member of remaining
fallback_unigram(unigram_probs, guessed) ==
    LET candidates == { i \in DOMAIN unigram_probs : i \notin guessed }
        remaining == { i \in Alphabet : i \notin guessed }
        pair_less(i, j) ==
            \/ prob_less(unigram_probs[i], unigram_probs[j])
            \/ /\ ~ prob_less(unigram_probs[j], unigram_probs[i])
               /\ i < j
    IN  IF candidates # {}
        THEN { Returns(CHOOSE i \in candidates :
                   \A j \in candidates \ {i} : pair_less(j, i)) }
        ELSE IF remaining # {} THEN { Returns(i) : i \in remaining }
        ELSE { Returns(None) }

\* -------------------------------------------------------------- orchestrator
\* "_ p p _ e", the form the client sends the pattern in
spaced(p) ==
    [ i \in 1..(2 * Len(p) - 1) |-> IF i % 2 = 1 THEN p[(i + 1) \div 2] ELSE Space ]

\* current_word_state.replace(" ", "")
remove_spaces(current_word_state) ==
    SelectSeq(current_word_state, LAMBDA c : c # Space)

\* weight_freq=0.5, in halves
WeightFreq == 1

\* get_best_guess, with the fallback taken as soon as no word matches (the
\* "entropy" strategy of play_hangman)
get_best_guess_skips_bayesian(word_list, stats, current_word_state, guessed_letters) ==
    LET pattern == remove_spaces(current_word_state)
        wrong_guesses == (guessed_letters \ Range(pattern)) \ {Wild}
        candidates == filter_candidates(word_list, pattern, wrong_guesses)
        locals == [ pattern |-> pattern, wrong_guesses |-> wrong_guesses,
                    candidates |-> candidates ]
        outcome(r, path) ==
            [ locals |-> locals, guess |-> r.guess, raised |-> r.raised, path |-> path ]
    IN  IF candidates # << >>
        THEN { outcome(r, << "entropy_guess" >>) :
                   r \in entropy_guess(candidates, guessed_letters, WeightFreq) }
        ELSE { outcome(f, << "fallback_unigram" >>) :
                   f \in fallback_unigram(stats.unigram_probs, guessed_letters) }

\* The outcomes of one call: the locals it computed, the scorers it invoked
\* (path, in order), and what it returned or that it raised.
get_best_guess(word_list, stats, current_word_state, guessed_letters) ==
    LET guessed == guessed_letters
        pattern == remove_spaces(current_word_state)
        wrong_guesses == (guessed \ Range(pattern)) \ {Wild}
        candidates == filter_candidates(word_list, pattern, wrong_guesses)
        locals == [ pattern |-> pattern, wrong_guesses |-> wrong_guesses,
                    candidates |-> candidates ]
        outcome(r, path) ==
            [ locals |-> locals, guess |-> r.guess, raised |-> r.raised, path |-> path ]
    IN  IF candidates # << >>
        THEN { outcome(r, << "entropy_guess" >>) :
                   r \in entropy_guess(candidates, guessed, WeightFreq) }
        ELSE UNION { IF r.guess = None
                     THEN { outcome(f, << "bayesian_guess", "fallback_unigram" >>) :
                                f \in fallback_unigram(stats.unigram_probs, guessed) }
                     ELSE { outcome(r, << "bayesian_guess" >>) } :
                     r \in bayesian_guess(pattern, guessed, stats) }

\* ------------------------------------------------------------------ the game
\* play_hangman, as the batch harness calls it: on the corpus the statistics
\* were built from, with one of its five strategies.
MaxAttempts == 3

\* ord("a") - ord("A"): an upper-case letter is the letter minus CaseOffset
CaseOffset == 32

\* The secret words played: the words of the lexicon, "ba", "Ab" and "a ".
Secrets == Lexicon \cup { << 2, 1 >>, << 1 - CaseOffset, 2 >>, << 1, Space >> }

Strategies == { "entropy", "bayesian", "random", "unigram", "combo" }

\* secret_word.lower()
lower(word) ==
    [ i \in 1..Len(word) |->
        IF word[i] + CaseOffset \in Alphabet THEN word[i] + CaseOffset ELSE word[i] ]

\* random.choice(remaining) if remaining else None
random_guess(guessed) ==
    LET remaining == { i \in Alphabet : i \notin guessed }
    IN  IF remaining # {} THEN { Returns(i) : i \in remaining }
        ELSE { Returns(None) }

\* The outcomes rs of a scorer, with the scorers called to get them.
Called(rs, scorers) ==
    { [ guess |-> r.guess, raised |-> r.raised, path |-> scorers ] : r \in rs }

\* guess = bayesian_guess(...); if guess is None: guess = fallback_unigram(...)
bayesian_or_fallback(pattern, guessed, stats) ==
    UNION { IF r.guess = None
            THEN Called(fallback_unigram(stats.unigram_probs, guessed),
                        << "bayesian_guess", "fallback_unigram" >>)
            ELSE Called({ r }, << "bayesian_guess" >>) :
            r \in bayesian_guess(pattern, guessed, stats) }

\* The if / elif chain over strategy; an unknown strategy raises ValueError.
strategy_guess(strategy, candidates, pattern, guessed, stats) ==
    LET entropy ==
            Called(entropy_guess(candidates, guessed, WeightFreq), << "entropy_guess" >>)
        unigram ==
            Called(fallback_unigram(stats.unigram_probs, guessed), << "fallback_unigram" >>)
    IN  CASE strategy = "entropy" -> IF candidates # << >> THEN entropy ELSE unigram
          [] strategy = "bayesian" -> bayesian_or_fallback(pattern, guessed, stats)
          [] strategy = "random" -> Called(random_guess(guessed), << "random_guess" >>)
          [] strategy = "unigram" -> unigram
          [] strategy = "combo" ->
                IF candidates # << >> THEN entropy
                ELSE bayesian_or_fallback(pattern, guessed, stats)
          [] OTHER -> Called({ Raises }, << >>)

\* if not guess: any of the remaining letters, or break when none remains
defensive(o, guessed) ==
    LET remaining == { l \in Alphabet : l \notin guessed }
    IN  IF o.raised \/ o.guess # None THEN { o }
        ELSE IF remaining = {}
        THEN { [ guess |-> None, raised |-> FALSE, path |-> o.path \o << "break" >> ] }
        ELSE { [ guess |-> l, raised |-> FALSE, path |-> o.path \o << "random.choice" >> ] :
                   l \in remaining }

\* apply_guess, with a miss not added to wrong_guesses
apply_guess_miss_not_recorded(secret_word, pattern, guessed, wrong_guesses, attempts_left, guess) ==
    IF guess \in Range(secret_word)
    THEN [ pattern |-> [ i \in 1..Len(pattern) |->
                           IF secret_word[i] = guess THEN guess ELSE pattern[i] ],
           guessed |-> guessed \cup { guess },
           wrong_guesses |-> wrong_guesses,
           attempts_left |-> attempts_left ]
    ELSE [ pattern |-> pattern,
           guessed |-> guessed \cup { guess },
           wrong_guesses |-> wrong_guesses,
           attempts_left |-> attempts_left - 1 ]

\* apply_guess, with a hit written to every slot of the pattern
apply_guess_reveals_every_slot(secret_word, pattern, guessed, wrong_guesses, attempts_left, guess) ==
    IF guess \in Range(secret_word)
    THEN [ pattern |-> [ i \in 1..Len(pattern) |-> guess ],
           guessed |-> guessed \cup { guess },
           wrong_guesses |-> wrong_guesses,
           attempts_left |-> attempts_left ]
    ELSE [ pattern |-> pattern,
           guessed |-> guessed \cup { guess },
           wrong_guesses |-> wrong_guesses \cup { guess },
           attempts_left |-> attempts_left - 1 ]

\* apply_guess, with the guess not added to guessed
apply_guess_guess_not_recorded(secret_word, pattern, guessed, wrong_guesses, attempts_left, guess) ==
    IF guess \in Range(secret_word)
    THEN [ pattern |-> [ i \in 1..Len(pattern) |->
                           IF secret_word[i] = guess THEN guess ELSE pattern[i] ],
           guessed |-> guessed,
           wrong_guesses |-> wrong_guesses,
           attempts_left |-> attempts_left ]
    ELSE [ pattern |-> pattern,
           guessed |-> guessed,
           wrong_guesses |-> wrong_guesses \cup { guess },
           attempts_left |-> attempts_left - 1 ]

\* guessed.add(guess); a hit is revealed at every slot that holds it, a miss is
\* added to wrong_guesses and costs an attempt
apply_guess(secret_word, pattern, guessed, wrong_guesses, attempts_left, guess) ==
    IF guess \in Range(secret_word)
    THEN [ pattern |-> [ i \in 1..Len(pattern) |->
                           IF secret_word[i] = guess THEN guess ELSE pattern[i] ],
           guessed |-> guessed \cup { guess },
           wrong_guesses |-> wrong_guesses,
           attempts_left |-> attempts_left ]
    ELSE [ pattern |-> pattern,
           guessed |-> guessed \cup { guess },
           wrong_guesses |-> wrong_guesses \cup { guess },
           attempts_left |-> attempts_left - 1 ]

\* ------------------------------------------------------------- the service
VARIABLES
    words,          \* the corpus, a module global (app.py 73-75)
    ngram_stats,    \* build_ngram_stats(words), module globals (app.py 82)
    pattern,        \* get_best_guess: pattern
    guessed,        \* get_best_guess: guessed
    wrong_guesses,  \* get_best_guess: wrong_guesses
    candidates,     \* get_best_guess: candidates
    freq_scores,    \* the Counter single_letter_freq_score returned
    path,           \* the scorers the last call invoked, in order
    guess,          \* what the last call returned (None also when it raised)
    raised,         \* whether the last call ended in an exception
    prev,           \* << [guess, raised] >> of the call before it, when that
                    \* call had the same arguments; << >> otherwise
    secret_word,    \* play_hangman: secret_word, lowered
    strategy,       \* play_hangman: strategy
    attempts_left,  \* play_hangman: attempts_left
    iterations,     \* the iterations of the loop of play_hangman begun so far
    result          \* << status, attempts_left >> as play_hangman returned it;
                    \* << >> before it returns

vars == << words, ngram_stats, pattern, guessed, wrong_guesses, candidates,
           freq_scores, path, guess, raised, prev,
           secret_word, strategy, attempts_left, iterations, result >>

\* The locals of play_hangman that get_best_guess does not have.
game_locals == << secret_word, strategy, attempts_left, iterations, result >>

\* No game of play_hangman is under way.
NoGame ==
    /\ secret_word = << >>
    /\ strategy = ""
    /\ attempts_left = 0
    /\ iterations = 0
    /\ result = << >>

NoScores == [ l \in {} |-> 0 ]

\* The service has started: the corpus is read and its statistics are built; no
\* request has been served.
Init ==
    /\ words \in Corpora
    /\ ngram_stats = build_ngram_stats(words)
    /\ pattern = << >>
    /\ guessed = {}
    /\ wrong_guesses = {}
    /\ candidates = << >>
    /\ freq_scores = NoScores
    /\ path = << >>
    /\ guess = None
    /\ raised = FALSE
    /\ prev = << >>
    /\ NoGame

Serve(current_word_state, guessed_letters) ==
    \E o \in get_best_guess(words, ngram_stats, current_word_state, guessed_letters) :
        /\ pattern' = o.locals.pattern
        /\ guessed' = guessed_letters
        /\ wrong_guesses' = o.locals.wrong_guesses
        /\ candidates' = o.locals.candidates
        /\ path' = o.path
        /\ guess' = o.guess
        /\ raised' = o.raised

\* POST /play with a game state, when no call is under way
Play ==
    /\ path = << >>
    /\ \E p \in Patterns, g \in SUBSET Alphabet :
          \E current_word_state \in { p, spaced(p) } :
              /\ Serve(current_word_state, g)
              /\ prev' = << >>
              /\ UNCHANGED << words, ngram_stats, freq_scores >>
              /\ UNCHANGED game_locals

\* POST /play with the game state of the last request, served by an
\* interpreter started anew (the salt of str hashes is drawn at start)
Replay ==
    /\ path # << >>
    /\ Serve(spaced(pattern), guessed)
    /\ prev' = << [ guess |-> guess, raised |-> raised ] >>
    /\ UNCHANGED << words, ngram_stats, freq_scores >>
    /\ UNCHANGED game_locals

\* return jsonify(...): the call is over and its locals are gone
Respond ==
    /\ path # << >>
    /\ pattern' = << >>
    /\ guessed' = {}
    /\ wrong_guesses' = {}
    /\ candidates' = << >>
    /\ freq_scores' = NoScores
    /\ path' = << >>
    /\ guess' = None
    /\ raised' = FALSE
    /\ prev' = << >>
    /\ UNCHANGED << words, ngram_stats >>
    /\ UNCHANGED game_locals

Next == Play \/ Replay \/ Respond

Spec == Init /\ [][Next]_vars

\* ------------------------------------------- the functions, called directly
\* As play_hangman and the batch harness call them: on any word list (an empty
\* one too), any pattern and any set of letters.
InitUnit ==
    /\ words \in Corpora \cup { << >> }
    /\ ngram_stats = build_ngram_stats(words)
    /\ pattern = << >>
    /\ guessed = {}
    /\ wrong_guesses = {}
    /\ candidates = << >>
    /\ freq_scores = NoScores
    /\ path = << >>
    /\ guess = None
    /\ raised = FALSE
    /\ prev = << >>
    /\ NoGame

\* candidates = filter_candidates(word_list, pattern, wrong_guesses)
CallFilter ==
    /\ path = << >>
    /\ \E p \in Patterns, w \in SUBSET Alphabet :
          /\ pattern' = p
          /\ wrong_guesses' = w
          /\ candidates' = filter_candidates(words, p, w)
    /\ path' = << "filter_candidates" >>
    /\ UNCHANGED << words, ngram_stats, guessed, freq_scores, guess, raised, prev >>
    /\ UNCHANGED game_locals

\* freq_scores = single_letter_freq_score(candidates, guessed)
CallFreqScore ==
    /\ path = << >>
    /\ \E g \in SUBSET Alphabet :
          /\ guessed' = g
          /\ candidates' = words
          /\ freq_scores' = single_letter_freq_score(words, g)
    /\ path' = << "single_letter_freq_score" >>
    /\ UNCHANGED << words, ngram_stats, pattern, wrong_guesses, guess, raised, prev >>
    /\ UNCHANGED game_locals

\* guess = fallback_unigram(unigram_probs, guessed)
CallFallback ==
    /\ path = << >>
    /\ \E g \in SUBSET Alphabet :
          /\ guessed' = g
          /\ \E r \in fallback_unigram(ngram_stats.unigram_probs, g) :
                /\ guess' = r.guess
                /\ raised' = r.raised
    /\ path' = << "fallback_unigram" >>
    /\ UNCHANGED << words, ngram_stats, pattern, wrong_guesses, candidates,
                    freq_scores, prev >>
    /\ UNCHANGED game_locals

\* guess = bayesian_guess(pattern, guessed, unigram_probs, bigram, ...)
CallBayesian ==
    /\ path = << >>
    /\ \E p \in Patterns, g \in SUBSET Alphabet :
          /\ pattern' = p
          /\ guessed' = g
          /\ \E r \in bayesian_guess(p, g, ngram_stats) :
                /\ guess' = r.guess
                /\ raised' = r.raised
    /\ path' = << "bayesian_guess" >>
    /\ UNCHANGED << words, ngram_stats, wrong_guesses, candidates, freq_scores, prev >>
    /\ UNCHANGED game_locals

NextUnit == CallFilter \/ CallFreqScore \/ CallFallback \/ CallBayesian \/ Respond

SpecUnit == InitUnit /\ [][NextUnit]_vars

\* -------------------------------------------------- the game, as it is played
\* play_hangman has been called and is about to test its loop condition for
\* the first time.
InitGame ==
    /\ words \in Corpora
    /\ ngram_stats = build_ngram_stats(words)
    /\ \E secret \in Secrets : secret_word = lower(secret)
    /\ strategy \in Strategies
    /\ attempts_left \in 1..MaxAttempts
    /\ pattern = [ i \in 1..Len(secret_word) |-> Wild ]
    /\ guessed = {}
    /\ wrong_guesses = {}
    /\ candidates = << >>
    /\ freq_scores = NoScores
    /\ path = << >>
    /\ guess = None
    /\ raised = FALSE
    /\ prev = << >>
    /\ iterations = 0
    /\ result = << >>

\* The loop was left by break.
Broke == path # << >> /\ path[Len(path)] = "break"

\* while attempts_left > 0 and "_" in pattern
LoopCondition == attempts_left > 0 /\ Wild \in Range(pattern)

\* One iteration of the loop: filter the candidates, ask the strategy, guess
\* defensively when it gave no letter, and apply the guess. An exception ends
\* the call without a result.
Guess ==
    /\ result = << >> /\ ~ raised /\ ~ Broke
    /\ LoopCondition
    /\ iterations' = iterations + 1
    /\ candidates' = filter_candidates(words, pattern, wrong_guesses)
    /\ \E o \in strategy_guess(strategy, candidates', pattern, guessed, ngram_stats) :
          \E d \in defensive(o, guessed) :
              /\ path' = d.path
              /\ raised' = d.raised
              /\ guess' = d.guess
              /\ IF d.raised \/ d.guess = None
                 THEN UNCHANGED << pattern, guessed, wrong_guesses, attempts_left >>
                 ELSE LET a == apply_guess(secret_word, pattern, guessed,
                                           wrong_guesses, attempts_left, d.guess)
                      IN  /\ pattern' = a.pattern
                          /\ guessed' = a.guessed
                          /\ wrong_guesses' = a.wrong_guesses
                          /\ attempts_left' = a.attempts_left
    /\ UNCHANGED << words, ngram_stats, freq_scores, prev, secret_word, strategy, result >>

\* return "Win", attempts_left or return "Loss", 0
Return ==
    /\ result = << >> /\ ~ raised
    /\ ~ LoopCondition \/ Broke
    /\ result' = IF Wild \notin Range(pattern) THEN << "Win", attempts_left >>
                 ELSE << "Loss", 0 >>
    /\ UNCHANGED << words, ngram_stats, pattern, guessed, wrong_guesses, candidates,
                    freq_scores, path, guess, raised, prev,
                    secret_word, strategy, attempts_left, iterations >>

NextGame == Guess \/ Return

SpecGame == InitGame /\ [][NextGame]_vars

\* The loop is sequential code: an iteration that can run runs, and the call
\* returns when the loop is left.
SpecGameFair == SpecGame /\ WF_vars(Guess) /\ WF_vars(Return)

TypeOK ==
    /\ words \in Corpora
    /\ pattern \in Patterns \cup { << >> }
    /\ guessed \subseteq Alphabet
    /\ wrong_guesses \subseteq guessed
    /\ guess \in Alphabet \cup { None }
    /\ raised \in BOOLEAN

\* ------------------------------------------------------------ properties
\* A call of get_best_guess has been served (in Spec, every call is one).
Served == path # << >>

\* C1: whenever get_best_guess returns a letter, by the entropy path, the
\* Bayesian path or the unigram fallback, the letter is a letter of the
\* alphabet and is not in the guessed set.
C1_ReturnedLetterIsUnguessed ==
    (Served /\ ~ raised /\ guess # None) =>
        (guess \in Alphabet /\ guess \notin guessed)

\* The fallback returned a letter although letters had been guessed.
C1_Witness_FallbackReturnsLetter ==
    /\ path = << "bayesian_guess", "fallback_unigram" >>
    /\ guess \in Alphabet
    /\ guessed # {}

\* C2: when the guessed set covers the whole alphabet, get_best_guess returns
\* None and never raises, also when the filter still returns a word.
C2_ExhaustedAlphabetReturnsNone ==
    (Served /\ guessed = Alphabet) => (~ raised /\ guess = None)

\* C3: the entropy scorer decides the guess iff the filter returned a word;
\* otherwise the Bayesian scorer is consulted, and the fallback only when the
\* Bayesian scorer returned no score.
C3_DecisionPath ==
    Served =>
        /\ path \in { << "entropy_guess" >>, << "bayesian_guess" >>,
                      << "bayesian_guess", "fallback_unigram" >> }
        /\ candidates = filter_candidates(words, pattern, wrong_guesses)
        /\ (path = << "entropy_guess" >>) <=> (candidates # << >>)
        /\ (candidates = << >>) => (path[1] = "bayesian_guess")
        /\ (Len(path) = 2) <=>
              /\ candidates = << >>
              /\ Returns(None) \in bayesian_guess(pattern, guessed, ngram_stats)

\* No word matched, unguessed letters and a wildcard remained, and the Bayesian
\* scorer decided.
C3_Witness_BayesianDecides ==
    /\ path = << "bayesian_guess" >>
    /\ candidates = << >>
    /\ guess \in Alphabet
    /\ guessed # {}

\* C4: filter_candidates returns exactly the words of the list of the
\* pattern's length that agree with the pattern at every revealed slot and hold
\* no wrong letter at a wildcard slot, in the order of the list.
IsCandidate(w, pat, wrong) ==
    /\ Len(w) = Len(pat)
    /\ \A i \in 1..Len(pat) :
          /\ (pat[i] # Wild) => (w[i] = pat[i])
          /\ (pat[i] = Wild) => (w[i] \notin wrong)

C4_FilterIsExact ==
    (path = << "filter_candidates" >>) =>
        candidates = SelectSeq(words, LAMBDA w : IsCandidate(w, pattern, wrong_guesses))

\* A word is kept though it holds a wrong letter at a revealed slot, and another
\* word is dropped.
C4_Witness_KeptAndDropped ==
    /\ path = << "filter_candidates" >>
    /\ candidates # << >>
    /\ Len(candidates) < Len(words)
    /\ \E k \in 1..Len(candidates) : Range(candidates[k]) \cap wrong_guesses # {}

\* C5: when the pattern holds no wildcard, the entropy scorer is not invoked,
\* even if words match the pattern, and the call does not raise.
C5_NoWildcardNoEntropy ==
    (Served /\ Wild \notin Range(pattern)) =>
        ("entropy_guess" \notin Range(path) /\ ~ raised)

\* C6: fallback_unigram returns an unguessed letter whenever a letter is
\* unguessed, whatever the statistics, and None without raising when the
\* guessed set covers the alphabet.
C6_FallbackIsTotal ==
    (path = << "fallback_unigram" >>) =>
        /\ ~ raised
        /\ (Cardinality(guessed) < AlphabetSize) =>
              (guess \in Alphabet /\ guess \notin guessed)
        /\ (guessed = Alphabet) => (guess = None)

\* The statistics are empty, letters were guessed, and a letter is returned.
C6_Witness_EmptyStatistics ==
    /\ path = << "fallback_unigram" >>
    /\ DOMAIN ngram_stats.unigram_probs = {}
    /\ guessed # {}
    /\ guess \in Alphabet

\* C7: when the statistics hold an unguessed letter, fallback_unigram returns
\* the unguessed letter of the highest probability, the greatest such letter
\* when several have that probability.
C7_FallbackPicksMostProbable ==
    LET probs == ngram_stats.unigram_probs
        unguessed == DOMAIN probs \ guessed
    IN  (path = << "fallback_unigram" >> /\ unguessed # {}) =>
            /\ guess \in unguessed
            /\ \A j \in unguessed :
                  \/ probs[j][1] * probs[guess][2] < probs[guess][1] * probs[j][2]
                  \/ /\ probs[j][1] * probs[guess][2] = probs[guess][1] * probs[j][2]
                     /\ j <= guess

\* Two unguessed letters have the highest probability.
C7_Witness_Tie ==
    LET probs == ngram_stats.unigram_probs
    IN  /\ path = << "fallback_unigram" >>
        /\ guess \in DOMAIN probs
        /\ \E j \in DOMAIN probs \ guessed :
              /\ j # guess
              /\ probs[j][1] * probs[guess][2] = probs[guess][1] * probs[j][2]

\* C8: for the same candidates, guessed letters and weight, entropy_guess
\* returns the same letter on every invocation, a letter of maximal combined
\* score.
C8_SameGuessOnEveryInvocation ==
    (path = << "entropy_guess" >> /\ ~ raised) =>
        LET combined == combined_scores(candidates, guessed, WeightFreq)
        IN  /\ \A y \in DOMAIN combined : combined[y] <= combined[guess]
            /\ (prev # << >>) => (prev[1].guess = guess)

\* C9, as claimed: the frequency score of an unguessed letter is the number
\* of distinct words of the list that hold it; guessed letters get no score.
C9_FreqCountsDistinctWords ==
    (path = << "single_letter_freq_score" >>) =>
        /\ DOMAIN freq_scores \cap guessed = {}
        /\ \A l \in Alphabet \ guessed :
              Get(freq_scores, l, 0)
                  = Cardinality({ w \in Range(candidates) : l \in Range(w) })

\* C9, amended: the frequency score of an unguessed letter is the number of
\* entries of the list that hold it, a word counted as often as the list holds
\* it; guessed letters get no score.
C9_FreqCountsListEntries ==
    (path = << "single_letter_freq_score" >>) =>
        /\ DOMAIN freq_scores \cap guessed = {}
        /\ \A l \in Alphabet \ guessed :
              Get(freq_scores, l, 0)
                  = Len(SelectSeq(candidates, LAMBDA w : l \in Range(w)))

\* The list holds a word twice, and a letter of it is scored 2.
C9_Witness_RepeatedWord ==
    /\ path = << "single_letter_freq_score" >>
    /\ \E l \in DOMAIN freq_scores :
          /\ freq_scores[l] = 2
          /\ Cardinality({ w \in Range(candidates) : l \in Range(w) }) = 1

\* C10: with the statistics of build_ngram_stats and alpha = 1, every factor
\* bayesian_guess multiplies into a likelihood has 0 < numer <= denom.
C10_FactorsInUnitInterval ==
    (Served /\ path[1] = "bayesian_guess") =>
        \A pos \in { q \in 1..Len(pattern) : pattern[q] = Wild }, X \in Alphabet \ guessed :
            LET fs == likelihood_factors(pattern, pos, X, ngram_stats)
            IN  \A i \in 1..Len(fs) : 0 < fs[i][1] /\ fs[i][1] <= fs[i][2]

\* A slot between two revealed letters, where a count exceeds the smoothing
\* mass alpha * V.
C10_Witness_CountAboveSmoothing ==
    /\ Served
    /\ path[1] = "bayesian_guess"
    /\ \E pos \in { q \in 1..Len(pattern) : pattern[q] = Wild }, X \in Alphabet \ guessed :
          LET fs == likelihood_factors(pattern, pos, X, ngram_stats)
          IN  /\ Len(fs) = 3
              /\ \E i \in 1..Len(fs) : fs[i][1] > Alpha * V

\* The wildcard slots of the pattern that have a wildcard neighbour, with the
\* neighbour: << pos, q >>.
WildcardPairs ==
    { pq \in (1..Len(pattern)) \X (1..Len(pattern)) :
        /\ pq[2] \in { pq[1] - 1, pq[1] + 1 }
        /\ pattern[pq[1]] = Wild
        /\ pattern[pq[2]] = Wild }

\* The pattern with slot q revealed as the letter A.
Revealed(q, A) == [ pattern EXCEPT ![q] = A ]

\* The count of the bigram that X at slot pos forms with A at its neighbour q.
ContextCount(pos, q, A, X) ==
    IF q < pos THEN Get(ngram_stats.bigram, << A, X >>, 0)
    ELSE Get(ngram_stats.bigram, << X, A >>, 0)

\* C11, as claimed: the score bayesian_guess accumulates for X at a wildcard
\* slot strictly increases when a neighbouring slot changes from wildcard to a
\* letter whose count with X is not zero.
C11_ScoreIncreasesWithContext ==
    (path = << "bayesian_guess" >>) =>
        \A pq \in WildcardPairs, A \in Alphabet, X \in Alphabet \ guessed :
            (ContextCount(pq[1], pq[2], A, X) > 0) =>
                score_less(slot_score(pattern, pq[1], X, ngram_stats),
                           slot_score(Revealed(pq[2], A), pq[1], X, ngram_stats))

\* C11, amended: the score strictly decreases, at the slot and summed over the
\* slots.
C11_ScoreDecreasesWithContext ==
    (path = << "bayesian_guess" >>) =>
        \A pq \in WildcardPairs, A \in Alphabet, X \in Alphabet \ guessed :
            (ContextCount(pq[1], pq[2], A, X) > 0) =>
                /\ score_less(slot_score(Revealed(pq[2], A), pq[1], X, ngram_stats),
                              slot_score(pattern, pq[1], X, ngram_stats))
                /\ score_less(bayesian_score(Revealed(pq[2], A), X, ngram_stats),
                              bayesian_score(pattern, X, ngram_stats))

\* A slot between a revealed letter and a wildcard, and a letter for the
\* wildcard whose count with an unguessed X is not zero.
C11_Witness_ContextWithCounts ==
    /\ path = << "bayesian_guess" >>
    /\ \E pq \in WildcardPairs, A \in Alphabet, X \in Alphabet \ guessed :
          /\ ContextCount(pq[1], pq[2], A, X) > 0
          /\ Len(likelihood_factors(Revealed(pq[2], A), pq[1], X, ngram_stats)) = 3

\* The sum over the alphabet of the counts count(b).
OverAlphabet(count(_)) == Sum([ b \in Alphabet |-> count(b) ], Alphabet)

\* C12: the sums build_ngram_stats returns are the aggregates of its count
\* tables: bigram_next_sum[a] is the sum of bigram[(a, b)] over b,
\* bigram_prev_sum[b] the sum of bigram[(a, b)] over a, and trigram_lr_sum[(a, c)]
\* the sum of trigram[(a, b, c)] over b; a sum has a key exactly when one of the
\* counts it adds up has. The statistics are those build_ngram_stats returned
\* at the start: no call writes them.
C12_SumsAreAggregates ==
    (path = << >>) =>
    LET st == ngram_stats
        next_sum(a) == LET n(b) == Get(st.bigram, << a, b >>, 0) IN OverAlphabet(n)
        prev_sum(b) == LET n(a) == Get(st.bigram, << a, b >>, 0) IN OverAlphabet(n)
        lr_sum(a, c) == LET n(b) == Get(st.trigram, << a, b, c >>, 0) IN OverAlphabet(n)
    IN  /\ \A a \in Alphabet :
              /\ Get(st.bigram_next_sum, a, 0) = next_sum(a)
              /\ Get(st.bigram_prev_sum, a, 0) = prev_sum(a)
              /\ a \in DOMAIN st.bigram_next_sum <=> next_sum(a) > 0
              /\ a \in DOMAIN st.bigram_prev_sum <=> prev_sum(a) > 0
        /\ \A a \in Alphabet, c \in Alphabet :
              /\ Get(st.trigram_lr_sum, << a, c >>, 0) = lr_sum(a, c)
              /\ << a, c >> \in DOMAIN st.trigram_lr_sum <=> lr_sum(a, c) > 0
        /\ DOMAIN st.bigram_next_sum \subseteq Alphabet
        /\ DOMAIN st.bigram_prev_sum \subseteq Alphabet
        /\ DOMAIN st.trigram_lr_sum \subseteq Alphabet \X Alphabet

\* Statistics, as build_ngram_stats returned them, in which a next-sum and a
\* prev-sum each add up the counts of two bigrams and a trigram was counted.
C12_Witness_SumOfSeveralCounts ==
    /\ \E a \in Alphabet :
          Cardinality({ k \in DOMAIN ngram_stats.bigram : k[1] = a }) > 1
    /\ \E b \in Alphabet :
          Cardinality({ k \in DOMAIN ngram_stats.bigram : k[2] = b }) > 1
    /\ \E k \in DOMAIN ngram_stats.trigram : TRUE
    /\ path = << >>

\* The letter occurs at the same positions in the two words.
SamePositions(w1, w2, letter) ==
    \A i \in 1..MaxWordLen :
        (i <= Len(w1) /\ w1[i] = letter) <=> (i <= Len(w2) /\ w2[i] = letter)

\* The candidates, by index, grouped by the positions of the letter.
PositionClasses(letter) ==
    { { j \in 1..Len(candidates) : SamePositions(candidates[j], candidates[k], letter) } :
        k \in 1..Len(candidates) }

\* C13: for every unguessed letter, the partitions entropy_score counts are the
\* groups of candidates that have the letter at the same set of positions, one
\* partition per group and of the group's size; the sizes add up to the number
\* of candidates; a letter in no candidate has one partition and entropy 0.
C13_PartitionsByPositionSet ==
    (Served /\ path[1] = "entropy_guess") =>
        \A letter \in Alphabet \ guessed :
            LET parts == partitions(candidates, letter)
                classes == PositionClasses(letter)
            IN  /\ Sum(parts, DOMAIN parts) = Len(candidates)
                /\ Cardinality(DOMAIN parts) = Cardinality(classes)
                /\ \A size \in 1..Len(candidates) :
                      Cardinality({ m \in DOMAIN parts : parts[m] = size })
                          = Cardinality({ cl \in classes : Cardinality(cl) = size })
                /\ (\A k \in 1..Len(candidates) : letter \notin Range(candidates[k])) =>
                      /\ Cardinality(DOMAIN parts) = 1
                      /\ entropy_score(candidates, guessed)[letter] = 0

\* Two candidates hold an unguessed letter, at different positions.
C13_Witness_SameLetterOtherPositions ==
    /\ Served /\ path[1] = "entropy_guess"
    /\ \E letter \in Alphabet \ guessed :
          \E j \in 1..Len(candidates), k \in 1..Len(candidates) :
              /\ letter \in Range(candidates[j]) \cap Range(candidates[k])
              /\ ~SamePositions(candidates[j], candidates[k], letter)

\* C14: at the start of every iteration of the loop of play_hangman (and when
\* the loop is left), the wrong_guesses it keeps is the set get_best_guess
\* derives from the same pattern and guessed letters: guessed, minus the
\* letters in the pattern, minus the wildcard.
C14_WrongGuessesAsDerived ==
    /\ wrong_guesses = (guessed \ Range(pattern)) \ { Wild }
    /\ get_best_guess(words, ngram_stats, spaced(pattern), guessed) # {}
    /\ \A o \in get_best_guess(words, ngram_stats, spaced(pattern), guessed)
                \cup get_best_guess(words, ngram_stats, pattern, guessed) :
          /\ o.locals.wrong_guesses = wrong_guesses
          /\ o.locals.pattern = pattern

\* An iteration is about to start after a hit and a miss.
C14_Witness_HitAndMiss ==
    /\ result = << >> /\ LoopCondition
    /\ wrong_guesses # {}
    /\ guessed \ wrong_guesses # {}

\* C15: in a game whose lowered secret is a word of the corpus, the secret is
\* among the candidates filter_candidates returns for the pattern and the
\* wrong guesses of every iteration, so the combo strategy asks entropy_guess
\* alone: bayesian_guess and fallback_unigram are not reached.
C15_SecretStaysCandidate ==
    (secret_word \in Range(words)) =>
        /\ secret_word \in Range(filter_candidates(words, pattern, wrong_guesses))
        /\ (iterations > 0) => secret_word \in Range(candidates)
        /\ (strategy = "combo") => path \in { << >>, << "entropy_guess" >> }

\* A combo game on a secret of the corpus has returned after a miss, the
\* misses having dropped a word of the secret's length from the candidates.
C15_Witness_ComboGameOnCorpusWord ==
    /\ strategy = "combo"
    /\ secret_word \in Range(words)
    /\ result # << >>
    /\ wrong_guesses # {}
    /\ \E k \in 1..Len(words) :
          /\ Len(words[k]) = Len(secret_word)
          /\ words[k] \notin Range(candidates)

\* The secret is a word over the alphabet.
SecretOverAlphabet == Range(secret_word) \subseteq Alphabet

\* C16: in a game on a secret over the alphabet, with any of the five
\* strategies, every iteration guesses a letter that is not in guessed and adds
\* it to guessed; the loop runs at most as many iterations as the alphabet has
\* letters; and play_hangman returns, "Win" with the pattern fully revealed or
\* "Loss" with attempts_left equal to 0.
C16_GameTerminates ==
    /\ [][ (SecretOverAlphabet /\ result' = << >>) =>
               /\ ~ raised'
               /\ guess' \in Alphabet \ guessed
               /\ guessed' = guessed \cup { guess' }
               /\ guessed' # guessed ]_vars
    /\ [](SecretOverAlphabet => iterations <= AlphabetSize)
    /\ [](SecretOverAlphabet /\ result # << >> =>
              \/ /\ result = << "Win", attempts_left >>
                 /\ Wild \notin Range(pattern)
              \/ /\ result = << "Loss", 0 >>
                 /\ attempts_left = 0
                 /\ Wild \in Range(pattern))
    /\ <>(SecretOverAlphabet => result # << >>)

\* A game on a secret over the alphabet has returned after as many iterations
\* as the alphabet has letters.
C16_Witness_EveryLetterGuessed ==
    /\ SecretOverAlphabet
    /\ strategy \in Strategies
    /\ result # << >>
    /\ iterations = AlphabetSize
    /\ guessed = Alphabet

====
